---- MODULE Spec2Model ----
(***************************************************************************)
(* The track-recording engine of the GPS tracker: the GPSTracker React     *)
(* component (src/src/components/Footer.tsx, second half) together with    *)
(* the geometry helpers of gpsUtils (src/unnamed/part_002) and the         *)
(* GPSControlPanel buttons that drive it.                                  *)
(*                                                                         *)
(* Numbers.  Positions lie on the equator (lat = 0) and lng is counted in  *)
(* metres of arc, so the haversine distance of two positions is the        *)
(* absolute difference of their lng; distances are kept in metres          *)
(* (km * 1000), clock readings in milliseconds, the platform speed in m/s  *)
(* and currentSpeed in tenths of km/h (m/s * 36).  averageSpeed is the     *)
(* quotient totalDistance / timeElapsed and is kept as the pair            *)
(* <<metres, milliseconds>>; two pairs denote the same speed when RatEq    *)
(* holds.                                                                  *)
(*                                                                         *)
(* Closures.  handlePositionUpdate is a useCallback over isTracking,       *)
(* isPaused and totalDistance.  watchPosition is handed the function of    *)
(* the render in which startTracking was created and keeps calling that    *)
(* very function, so every watch sees the three values as they were when   *)
(* it was registered.  A watch records what its callback reads of them:    *)
(* the value of the guard `isTracking && !isPaused` and, when the guard    *)
(* holds, totalDistance (a callback whose guard fails never reads it).     *)
(* route, totalDistance (through their functional updaters) and the two    *)
(* refs are read live.                                                     *)
(*                                                                         *)
(* Operations.  Spec lets every handler of the component be invoked in     *)
(* every state, as the engine's operations are specified; the buttons of   *)
(* GPSControlPanel only offer some of them in some states.                 *)
(*                                                                         *)
(* Environment.  In Spec navigator.geolocation exists, setItem succeeds    *)
(* and the component starts on an empty persisted area; a failing          *)
(* persisted area belongs to a specification of its own.                   *)
(***************************************************************************)
EXTENDS Integers, Sequences, FiniteSets, TLC

VARIABLES
    currentPosition,   \* useState<Position | null>
    isTracking,        \* useState(false)
    isPaused,          \* useState(false)
    route,             \* useState<Position[]>([])
    plannedRoute,      \* useState<Position[]>([])
    destination,       \* useState<Position | null>
    totalDistance,     \* useState(0), metres
    currentSpeed,      \* useState(0), tenths of km/h
    averageSpeed,      \* useState(0), <<metres, milliseconds>>
    routeInfo,         \* useState<{distance, duration} | null>
    savedRoutes,       \* useState<RouteData[]>([])
    watchId,           \* useState<number | null>
    lastPositionRef,   \* useRef<Position | null>
    startTimeRef,      \* useRef<number>(Date.now())
    localStorage,      \* the item 'gps-routes' of window.localStorage
    watches,           \* the watches registered with navigator.geolocation
    now,               \* Date.now()
    lastOp,            \* history: the operation that produced this state
    wasTracking,       \* history: isTracking when that operation began
    downloads,         \* RouteExporter: the files handed to downloadFile
    exporterToast,     \* RouteExporter: the title of its last toast
    args,              \* gpsUtils: the arguments of the call
    result,            \* gpsUtils: what the call returned
    requests,          \* the routing requests awaiting their response
    query,             \* SearchBar: useState('')
    results,           \* SearchBar: useState<SearchResult[]>([])
    isLoading,         \* SearchBar: useState(false)
    showResults,       \* SearchBar: useState(false)
    debounceRef,       \* SearchBar: useRef<NodeJS.Timeout>()
    timers,            \* SearchBar: the timeouts that are pending
    searches,          \* SearchBar: the searches awaiting their response
    launched,          \* history: the values searched for, oldest first
    typed,             \* history: the values typed, oldest first
    sinceKeystroke     \* history: ms since the last keystroke, capped

vars == <<currentPosition, isTracking, isPaused, route, plannedRoute,
          destination, totalDistance, currentSpeed, averageSpeed, routeInfo,
          savedRoutes, watchId, lastPositionRef, startTimeRef, localStorage,
          watches, now, lastOp, wasTracking, downloads, exporterToast, args,
          result, requests, query, results, isLoading, showResults,
          debounceRef, timers, searches, launched, typed, sinceKeystroke>>

\* The state of the SearchBar component.
searchBar == <<query, results, isLoading, showResults, debounceRef, timers,
               searches, launched, typed, sinceKeystroke>>

\* What the handlers of the recording engine do not touch: the exporter's
\* output, the calls of the gpsUtils functions, the routing requests and
\* the search box.
outside == <<downloads, exporterToast, args, result, requests, searchBar>>

\* ------------------------------------------------------------------ bounds
MaxTime == 1
MaxRoute == 2
MaxSaved == 2
MaxWatches == 3
MaxTrack == 2
MaxDownloads == 2
MaxLen == 3

\* ------------------------------------------------------- input alphabets
Null == <<>>

Some(x) == <<x>>

Get(o) == o[1]

\* What the location source can deliver: coords.longitude (metres of arc),
\* coords.accuracy (metres) and coords.speed (m/s or null).
Fixes == {[lng |-> 0, accuracy |-> 10, speed |-> Null],
          [lng |-> 8, accuracy |-> 100, speed |-> Some(2)]}

\* ------------------------------------------------------------- gpsUtils
MinDistance == 5

MaxAccuracy == 50

Abs(x) == IF x < 0 THEN -x ELSE x

Max(a, b) == IF a >= b THEN a ELSE b

calculateDistance_Signed(pos1, pos2) == pos2.lng - pos1.lng

calculateDistance(pos1, pos2) == Abs(pos2.lng - pos1.lng)

RECURSIVE calculateTotalDistance(_)
calculateTotalDistance(positions) ==
    IF Len(positions) < 2 THEN 0
    ELSE calculateTotalDistance(SubSeq(positions, 1, Len(positions) - 1))
         + calculateDistance(positions[Len(positions) - 1],
                             positions[Len(positions)])

\* The test filterGPSPoints applies to a point against the last point kept.
admit(last, current) ==
    /\ ~(calculateDistance(last, current) < MinDistance)
    /\ ~(current.accuracy # 0 /\ current.accuracy > MaxAccuracy)

\* ----------------------------------------------------------- quotients
Zero == <<0, 1>>

RatEq(a, b) == a[1] * b[2] = b[1] * a[2]

\* ------------------------------------------------------ persisted area
JSONstringify(value) == [text |-> value]

JSONparse(item) == item.text

Persisted ==
    IF localStorage = Null THEN <<>> ELSE JSONparse(Get(localStorage))

\* ------------------------------------------------------------- states
Recording == isTracking /\ ~isPaused

Paused == isTracking /\ isPaused

initialRender ==
    /\ currentPosition = Null
    /\ isTracking = FALSE
    /\ isPaused = FALSE
    /\ route = <<>>
    /\ plannedRoute = <<>>
    /\ destination = Null
    /\ totalDistance = 0
    /\ currentSpeed = 0
    /\ averageSpeed = Zero
    /\ routeInfo = Null
    /\ savedRoutes = <<>>
    /\ watchId = Null
    /\ lastPositionRef = Null
    /\ startTimeRef = 0
    /\ localStorage = Null
    /\ watches = {}
    /\ now = 0
    /\ lastOp = "init"
    /\ wasTracking = FALSE

\* SearchBar as it is first rendered, nothing typed yet.
initialSearchBar ==
    /\ query = ""
    /\ results = <<>>
    /\ isLoading = FALSE
    /\ showResults = FALSE
    /\ debounceRef = Null
    /\ timers = {}
    /\ searches = {}
    /\ launched = <<>>
    /\ typed = <<>>
    /\ sinceKeystroke = 0

Init ==
    /\ initialRender
    /\ downloads = <<>>
    /\ exporterToast = Null
    /\ args = Null
    /\ result = Null
    /\ requests = {}
    /\ initialSearchBar

\* ------------------------------------------------------------ handlers
addedDistance_FromLastPosition(newPosition) ==
    IF lastPositionRef # Null
    THEN calculateDistance(Get(lastPositionRef), newPosition)
    ELSE 0

\* The distance the route updater adds for a new position.
addedDistance(newPosition) ==
    IF Len(route) > 0
    THEN calculateDistance(route[Len(route)], newPosition)
    ELSE 0

\* The quotient the route updater stores as average speed: the callback's
\* own totalDistance over the hours since startTimeRef.
nextAverageSpeed(w, timeElapsed) ==
    IF timeElapsed > 0 THEN <<w.totalDistance, timeElapsed>> ELSE averageSpeed

handlePositionUpdate_Prepends(w, position) ==
    LET newPosition == [lat |-> 0, lng |-> position.lng, timestamp |-> now,
                        accuracy |-> position.accuracy]
        speed == position.speed
        timeElapsed == now - startTimeRef
    IN  /\ currentPosition' = Some(newPosition)
        /\ currentSpeed' = IF lastPositionRef # Null /\ speed # Null
                           THEN Max(0, Get(speed) * 36)
                           ELSE currentSpeed
        /\ IF w.recording
           THEN /\ Len(route) < MaxRoute
                /\ route' = <<newPosition>> \o route
                /\ totalDistance' = totalDistance + addedDistance(newPosition)
                /\ averageSpeed' = nextAverageSpeed(w, timeElapsed)
           ELSE UNCHANGED <<route, totalDistance, averageSpeed>>
        /\ lastPositionRef' = Some(newPosition)
        /\ lastOp' = "sample"
        /\ wasTracking' = isTracking
        /\ UNCHANGED outside
        /\ UNCHANGED <<isTracking, isPaused, plannedRoute, destination,
                       routeInfo, savedRoutes, watchId, startTimeRef,
                       localStorage, watches, now>>

handlePositionUpdate(w, position) ==
    LET newPosition == [lat |-> 0, lng |-> position.lng, timestamp |-> now,
                        accuracy |-> position.accuracy]
        speed == position.speed
        timeElapsed == now - startTimeRef
    IN  /\ currentPosition' = Some(newPosition)
        /\ currentSpeed' = IF lastPositionRef # Null /\ speed # Null
                           THEN Max(0, Get(speed) * 36)
                           ELSE currentSpeed
        /\ IF w.recording
           THEN /\ Len(route) < MaxRoute
                /\ route' = Append(route, newPosition)
                /\ totalDistance' = totalDistance + addedDistance(newPosition)
                /\ averageSpeed' = nextAverageSpeed(w, timeElapsed)
           ELSE UNCHANGED <<route, totalDistance, averageSpeed>>
        /\ lastPositionRef' = Some(newPosition)
        /\ lastOp' = "sample"
        /\ wasTracking' = isTracking
        /\ UNCHANGED outside
        /\ UNCHANGED <<isTracking, isPaused, plannedRoute, destination,
                       routeInfo, savedRoutes, watchId, startTimeRef,
                       localStorage, watches, now>>

\* watchPosition returns an implementation-defined id that no registered
\* watch uses; the least such id is taken.
watchPosition ==
    CHOOSE id \in 1..(Cardinality(watches) + 1) :
        /\ \A w \in watches : w.id # id
        /\ \A smaller \in 1..(id - 1) : \E w \in watches : w.id = smaller

\* handlePositionUpdate as the current render closes it (useCallback over
\* isTracking, isPaused, totalDistance), registered under the given id.
Closure(id) ==
    [id |-> id,
     recording |-> isTracking /\ ~isPaused,
     totalDistance |-> IF isTracking /\ ~isPaused THEN totalDistance ELSE 0]

startTracking ==
    /\ Cardinality(watches) < MaxWatches
    /\ LET id == watchPosition
       IN  /\ watches' = watches \cup {Closure(id)}
           /\ watchId' = Some(id)
    /\ isTracking' = TRUE
    /\ isPaused' = FALSE
    /\ startTimeRef' = now
    /\ totalDistance' = 0
    /\ route' = <<>>
    /\ lastOp' = "start"
    /\ wasTracking' = isTracking
    /\ UNCHANGED outside
    /\ UNCHANGED <<currentPosition, plannedRoute, destination, currentSpeed,
                   averageSpeed, routeInfo, savedRoutes, lastPositionRef,
                   localStorage, now>>

routeData ==
    [id |-> ToString(now),
     name |-> now,
     positions |-> route,
     startTime |-> startTimeRef,
     endTime |-> now,
     totalDistance |-> totalDistance,
     averageSpeed |-> averageSpeed]

hasPositions_Always == TRUE

hasPositions == Len(route) > 0

updatedRoutes_NewestFirst == <<routeData>> \o savedRoutes

updatedRoutes == Append(savedRoutes, routeData)

stopTracking ==
    /\ watches' = IF watchId # Null
                  THEN {w \in watches : w.id # Get(watchId)}
                  ELSE watches
    /\ watchId' = Null
    /\ IF hasPositions
       THEN /\ Len(savedRoutes) < MaxSaved
            /\ savedRoutes' = updatedRoutes
            /\ localStorage' = Some(JSONstringify(updatedRoutes))
       ELSE UNCHANGED <<savedRoutes, localStorage>>
    /\ isTracking' = FALSE
    /\ isPaused' = FALSE
    /\ lastOp' = "stop"
    /\ wasTracking' = isTracking
    /\ UNCHANGED outside
    /\ UNCHANGED <<currentPosition, route, plannedRoute, destination,
                   totalDistance, currentSpeed, averageSpeed, routeInfo,
                   lastPositionRef, startTimeRef, now>>

togglePause ==
    /\ isPaused' = ~isPaused
    /\ lastOp' = "pause"
    /\ wasTracking' = isTracking
    /\ UNCHANGED outside
    /\ UNCHANGED <<currentPosition, isTracking, route, plannedRoute,
                   destination, totalDistance, currentSpeed, averageSpeed,
                   routeInfo, savedRoutes, watchId, lastPositionRef,
                   startTimeRef, localStorage, watches, now>>

clearRoute_KeepsTotal ==
    /\ route' = <<>>
    /\ plannedRoute' = <<>>
    /\ destination' = Null
    /\ currentSpeed' = 0
    /\ averageSpeed' = Zero
    /\ routeInfo' = Null
    /\ startTimeRef' = now
    /\ lastOp' = "clear"
    /\ wasTracking' = isTracking
    /\ UNCHANGED outside
    /\ UNCHANGED <<currentPosition, isTracking, isPaused, totalDistance,
                   savedRoutes, watchId, lastPositionRef, localStorage,
                   watches, now>>

clearRoute ==
    /\ route' = <<>>
    /\ plannedRoute' = <<>>
    /\ destination' = Null
    /\ totalDistance' = 0
    /\ currentSpeed' = 0
    /\ averageSpeed' = Zero
    /\ routeInfo' = Null
    /\ startTimeRef' = now
    /\ lastOp' = "clear"
    /\ wasTracking' = isTracking
    /\ UNCHANGED outside
    /\ UNCHANGED <<currentPosition, isTracking, isPaused, savedRoutes,
                   watchId, lastPositionRef, localStorage, watches, now>>

loadRoute_TakesFromSaved(loaded) ==
    /\ route' = loaded.positions
    /\ totalDistance' = loaded.totalDistance
    /\ averageSpeed' = loaded.averageSpeed
    /\ savedRoutes' = SelectSeq(savedRoutes, LAMBDA r : r # loaded)
    /\ lastOp' = "load"
    /\ wasTracking' = isTracking
    /\ UNCHANGED outside
    /\ UNCHANGED <<currentPosition, isTracking, isPaused, plannedRoute,
                   destination, currentSpeed, routeInfo, watchId,
                   lastPositionRef, startTimeRef, localStorage, watches,
                   now>>

loadRoute(loaded) ==
    /\ route' = loaded.positions
    /\ totalDistance' = loaded.totalDistance
    /\ averageSpeed' = loaded.averageSpeed
    /\ lastOp' = "load"
    /\ wasTracking' = isTracking
    /\ UNCHANGED outside
    /\ UNCHANGED <<currentPosition, isTracking, isPaused, plannedRoute,
                   destination, currentSpeed, routeInfo, savedRoutes,
                   watchId, lastPositionRef, startTimeRef, localStorage,
                   watches, now>>

\* ------------------------------------------------------------- actions
Deliver ==
    \E w \in watches, position \in Fixes :
        handlePositionUpdate(w, position)

Load == \E i \in 1..Len(savedRoutes) : loadRoute(savedRoutes[i])

Tick ==
    /\ now < MaxTime
    /\ now' = now + 1
    /\ lastOp' = "tick"
    /\ wasTracking' = isTracking
    /\ UNCHANGED outside
    /\ UNCHANGED <<currentPosition, isTracking, isPaused, route,
                   plannedRoute, destination, totalDistance, currentSpeed,
                   averageSpeed, routeInfo, savedRoutes, watchId,
                   lastPositionRef, startTimeRef, localStorage, watches>>

Next ==
    \/ startTracking
    \/ stopTracking
    \/ togglePause
    \/ clearRoute
    \/ Load
    \/ Deliver
    \/ Tick

Spec == Init /\ [][Next]_vars

\* ---------------------------------------------------------- properties
Last(s) == s[Len(s)]

\* The sample the last delivery carried, as the handler built it.
Delivered == Get(currentPosition)

\* The filter admits a sample against the track it would extend.
Admitted(track, sample) ==
    Len(track) = 0 \/ admit(Last(track), sample)

\* C1: once start() has put the engine in Recording, every sample that is
\* delivered while the state is still Recording and that the filter admits
\* is appended to the active track, whose length grows by one.
C1_RecordingSampleAppended ==
    [][(lastOp' = "sample" /\ Recording /\ Admitted(route, Delivered'))
       => route' = Append(route, Delivered')]_vars

\* C2: a sample delivered while the engine is not Recording (Idle, Paused
\* or Stopped) leaves the track's samples and totalDistance unchanged.
C2_NoGrowthUnlessRecording ==
    [][(lastOp' = "sample" /\ ~Recording)
       => (route' = route /\ totalDistance' = totalDistance)]_vars

\* C3: stop() from Recording or Paused leaves the engine neither tracking
\* nor paused; it appends the active track to the persisted collection
\* when the track has a sample and leaves the collection unchanged when
\* it has none.
C3_StopCommitsIffSamples ==
    [][(lastOp' = "stop" /\ isTracking)
       => /\ ~isTracking' /\ ~isPaused'
          /\ IF Len(route) > 0
             THEN /\ Len(Persisted') = Len(Persisted) + 1
                  /\ Last(Persisted').positions = route
             ELSE Persisted' = Persisted]_vars

C3_Witness ==
    /\ lastOp = "stop" /\ wasTracking
    /\ Len(Persisted) = 1
    /\ Len(route) > 0

\* C4: immediately after start() from Idle or Stopped the engine is
\* Recording, the active track is empty, the session start time is the
\* time of the call, and total distance and average speed are both 0.
C4_StartResetsSession ==
    (lastOp = "start" /\ ~wasTracking)
    => /\ Recording
       /\ route = <<>>
       /\ startTimeRef = now
       /\ totalDistance = 0
       /\ averageSpeed[1] = 0

C6_AverageUsesUpdatedTotal ==
    [][(lastOp' = "sample" /\ Recording /\ route' # route
        /\ now - startTimeRef > 0)
       => RatEq(averageSpeed', <<totalDistance', now - startTimeRef>>)]_vars

\* C7: while Recording a delivered sample is appended only if the filter
\* admits it against the last sample of the track: not when it is closer
\* than MinDistance to it, nor when its accuracy exceeds MaxAccuracy.
C7_OnlyAdmittedAppended ==
    [][(lastOp' = "sample" /\ Recording /\ route' # route)
       => Admitted(route, Delivered')]_vars
C9_IdsUnique ==
    \A i, j \in 1..Len(Persisted) :
        i # j => Persisted[i].id # Persisted[j].id

engineState ==
    <<currentPosition, isTracking, isPaused, route, plannedRoute,
      destination, totalDistance, currentSpeed, averageSpeed, routeInfo,
      savedRoutes, watchId, lastPositionRef, startTimeRef, localStorage,
      watches>>

\* C11: pause() outside Recording and resume() outside Paused leave the
\* whole engine state unchanged; the pause control invoked while the
\* engine is not tracking (Idle or Stopped) is both, so it changes
\* nothing and the engine stays not paused.
C11_InvalidPauseChangesNothing ==
    [][(lastOp' = "pause" /\ ~isTracking)
       => (engineState' = engineState /\ ~isPaused')]_vars

\* C12: start() while Recording or Paused and stop() while Idle or
\* Stopped are no-ops: the active track, the metrics, the subscription,
\* the state tag and the persisted collection are unchanged.
C12_InvalidStartStopAreNoOps ==
    [][((lastOp' = "start" /\ isTracking)
        \/ (lastOp' = "stop" /\ ~isTracking))
       => UNCHANGED <<route, totalDistance, currentSpeed, averageSpeed,
                      watchId, watches, isTracking, isPaused,
                      localStorage>>]_vars

\* C13: in every state, Idle before the first start() and Stopped after
\* stop() included, the location source has the position handler
\* subscribed, so a sample it emits is processed; and a processed sample
\* is the last known position.
C13_SampleProcessedInEveryState ==
    /\ watches # {}
    /\ lastOp = "sample"
       => (currentPosition # Null /\ Delivered.timestamp = now
           /\ lastPositionRef = currentPosition)

\* ------------------------------------------------------------ teardown
\* The component is unmounted.  None of its effects returns a cleanup
\* function, so nothing is cleared: the watches stay registered with
\* navigator.geolocation.  lastOp = "unmount" marks the unmounted
\* component from then on.
unmount ==
    /\ lastOp # "unmount"
    /\ lastOp' = "unmount"
    /\ wasTracking' = isTracking
    /\ UNCHANGED outside
    /\ UNCHANGED <<engineState, now>>

\* A watch that outlived the component calls its handlePositionUpdate:
\* React drops the state updates of an unmounted component, the
\* assignment to lastPositionRef.current takes place.
DeliverUnmounted ==
    \E w \in watches, position \in Fixes :
        LET newPosition == [lat |-> 0, lng |-> position.lng,
                            timestamp |-> now,
                            accuracy |-> position.accuracy]
        IN  /\ lastOp = "unmount"
            /\ lastPositionRef' = Some(newPosition)
            /\ UNCHANGED <<currentPosition, isTracking, isPaused, route,
                           plannedRoute, destination, totalDistance,
                           currentSpeed, averageSpeed, routeInfo,
                           savedRoutes, watchId, startTimeRef,
                           localStorage, watches, now, lastOp,
                           wasTracking, outside>>

Mounted == lastOp # "unmount" /\ Next

NextTeardown ==
    \/ Mounted
    \/ unmount
    \/ DeliverUnmounted

SpecTeardown == Init /\ [][NextTeardown]_vars

\* C14: once stop() has completed, and once the component has been torn
\* down, no watch registered by start() is left with the location source,
\* so that no sample can be processed before the next start().
C14_NoWatchAfterStopOrTeardown ==
    lastOp \in {"stop", "unmount"} => watches = {}

\* ------------------------------------------------- failing persisted area
\* stopTracking when localStorage.setItem throws (quota exceeded, storage
\* disabled).  The exception leaves the handler at line 230: the watch is
\* cleared and the updates queued before it, setWatchId(null) and
\* setSavedRoutes(updatedRoutes), are applied; the item is not written and
\* setIsTracking(false), setIsPaused(false) are not reached.
stopTrackingSetItemThrows ==
    /\ hasPositions
    /\ Len(savedRoutes) < MaxSaved
    /\ watches' = IF watchId # Null
                  THEN {w \in watches : w.id # Get(watchId)}
                  ELSE watches
    /\ watchId' = Null
    /\ savedRoutes' = updatedRoutes
    /\ lastOp' = "stopFailed"
    /\ wasTracking' = isTracking
    /\ UNCHANGED outside
    /\ UNCHANGED <<currentPosition, isTracking, isPaused, route,
                   plannedRoute, destination, totalDistance, currentSpeed,
                   averageSpeed, routeInfo, lastPositionRef, startTimeRef,
                   localStorage, now>>

NextStore ==
    \/ Next
    \/ stopTrackingSetItemThrows

SpecStore == Init /\ [][NextStore]_vars

\* C15: a stop() whose write fails keeps the active track's samples and
\* metrics in memory, and the stop() that retries it right after and
\* succeeds adds exactly one copy of the track to the persisted
\* collection, which the in-memory saved list then equals.
C15_RetryStoresOneCopy ==
    [][/\ lastOp' = "stopFailed"
          => UNCHANGED <<route, totalDistance, averageSpeed>>
       /\ (lastOp = "stopFailed" /\ lastOp' = "stop")
          => /\ Len(Persisted') = Len(Persisted) + 1
             /\ Last(Persisted').positions = route
             /\ savedRoutes' = Persisted']_vars

\* C16: loading a stored track for display, and every sample, pause and
\* clear that follows on the displayed track, leave the persisted
\* collection and the in-memory saved list as they were: no track that
\* is in the store changes.
C16_LoadLeavesStoreAlone ==
    [][lastOp' \in {"load", "sample", "pause", "clear"}
       => (Persisted' = Persisted /\ savedRoutes' = savedRoutes)]_vars

C16_Witness ==
    /\ lastOp = "load"
    /\ Len(Persisted) = 2
    /\ route = Persisted[1].positions
    /\ route # Persisted[2].positions

\* C17: between a start() and the next stop() the active track only
\* grows: whatever operation is performed in the session (a sample,
\* pause, resume, clear, load route), the track before it is a prefix of
\* the track after it and totalDistance does not decrease.
C17_ActiveTrackOnlyGrows ==
    [][(isTracking /\ lastOp' \notin {"start", "stop"})
       => /\ Len(route) <= Len(route')
          /\ SubSeq(route', 1, Len(route)) = route
          /\ totalDistance' >= totalDistance]_vars

NonDecreasing(positions) ==
    \A i \in 1..(Len(positions) - 1) :
        positions[i].timestamp <= positions[i + 1].timestamp

\* C18: in every reachable state the timestamps of the samples of the
\* active track, and of every stored track, are non-decreasing along the
\* sequence.
C18_TimestampsNonDecreasing ==
    /\ NonDecreasing(route)
    /\ \A i \in 1..Len(Persisted) : NonDecreasing(Persisted[i].positions)
    /\ \A i \in 1..Len(savedRoutes) :
           NonDecreasing(savedRoutes[i].positions)

C18_Witness ==
    /\ Len(route) = 2
    /\ route[1].timestamp < route[2].timestamp
    /\ \E i \in 1..Len(Persisted) :
           /\ Len(Persisted[i].positions) = 2
           /\ Persisted[i].positions[1].timestamp
                  < Persisted[i].positions[2].timestamp

\* C19: when a sample is appended to the track at a moment at which no
\* time has elapsed since the session start, averageSpeed is 0 after the
\* sample has been processed; an earlier non-zero value is not kept.
C19_ZeroElapsedZeroAverage ==
    [][(lastOp' = "sample" /\ route' # route /\ now - startTimeRef = 0)
       => averageSpeed'[1] = 0]_vars

\* The fix of the location source that a built position came from (the
\* fixes differ in their longitude).
FixOf(newPosition) == CHOOSE f \in Fixes : f.lng = newPosition.lng

\* C20: whenever a processed sample carries a platform speed, currentSpeed
\* after processing is that speed converted to km/h (m/s * 3.6, here
\* tenths of km/h), in every state and for the very first sample too.
C20_PlatformSpeedDisplayed ==
    [][(lastOp' = "sample" /\ FixOf(Delivered').speed # Null)
       => currentSpeed' = Get(FixOf(Delivered').speed) * 36]_vars

\* distanceKm(prev, curr) / hoursBetween(prev, curr) in km/h, as the
\* quotient <<metres * 3600, milliseconds>>; 0 when no time lies between.
SpeedBetween(prev, curr) ==
    IF curr.timestamp = prev.timestamp
    THEN Zero
    ELSE <<Abs(curr.lng - prev.lng) * 3600, curr.timestamp - prev.timestamp>>

\* C21: when a processed sample carries no platform speed and a previous
\* sample exists, currentSpeed becomes the distance between the two
\* samples divided by the hours between them (0 when no time lies
\* between them); it does not keep its previous value.
C21_SpeedDerivedFromSamples ==
    [][(lastOp' = "sample" /\ FixOf(Delivered').speed = Null
        /\ lastPositionRef # Null)
       => RatEq(<<currentSpeed', 10>>,
                SpeedBetween(Get(lastPositionRef), Delivered'))]_vars

\* -------------------------------------------------------- RouteExporter
\* The route prop the exporter can be rendered with: tracks of up to
\* MaxTrack positions, with latitudes that differ from the longitudes.
ExportPoints ==
    {[lat |-> 1, lng |-> 2, timestamp |-> 0, accuracy |-> 10],
     [lat |-> 2, lng |-> 1, timestamp |-> 1, accuracy |-> 10]}

ExportTracks ==
    UNION {[1..n -> ExportPoints] : n \in 0..MaxTrack}

\* new Date(ms).toISOString(): the text of the instant, and its date part.
toISOString(ms) == [iso |-> ms]

datePart(isoText) == [date |-> isoText.iso \div 86400000]

trkpt(point) ==
    [lat |-> point.lat, lon |-> point.lng,
     time |-> toISOString(point.timestamp)]

gpxContent ==
    [gpx |-> [version |-> "1.1", creator |-> "GPS Tracker"],
     metadata |-> [name |-> <<"GPS Route ", toISOString(now)>>,
                   time |-> toISOString(now)],
     trk |-> [name |-> "GPS Track",
             trkseg |-> [i \in 1..Len(route) |-> trkpt(route[i])]]]

coordinate_LatFirst(point) == <<point.lat, point.lng>>

coordinate(point) == <<point.lng, point.lat>>

timestampOf(point) == toISOString(point.timestamp)

geoJsonContent ==
    [type |-> "FeatureCollection",
     features |->
        <<[type |-> "Feature",
           geometry |-> [type |-> "LineString",
                         coordinates |->
                             [i \in 1..Len(route) |->
                                 coordinate(route[i])]],
           properties |-> [name |-> <<"GPS Route ", toISOString(now)>>,
                           time |-> toISOString(now),
                           points |-> Len(route),
                           timestamps |->
                               [i \in 1..Len(route) |->
                                   timestampOf(route[i])]]]>>]

\* downloadFile: a Blob of the content with the MIME type, offered under
\* the file name through a link that is clicked once.
downloadFile(content, filename, mimeType) ==
    downloads' = Append(downloads, [content |-> content,
                                    filename |-> filename,
                                    mimeType |-> mimeType])

noRouteData_Never == FALSE

noRouteData == Len(route) = 0

exportToGPX ==
    /\ Len(downloads) < MaxDownloads
    /\ IF noRouteData
       THEN /\ exporterToast' = Some("No Route Data")
            /\ UNCHANGED downloads
       ELSE /\ downloadFile(gpxContent,
                            <<"gps-route-", datePart(toISOString(now)),
                              ".gpx">>,
                            "application/gpx+xml")
            /\ exporterToast' = Some("GPX Exported")
    /\ lastOp' = "exportToGPX"
    /\ UNCHANGED <<engineState, now, wasTracking, args, result, requests,
                   searchBar>>

exportToGeoJSON ==
    /\ Len(downloads) < MaxDownloads
    /\ IF noRouteData
       THEN /\ exporterToast' = Some("No Route Data")
            /\ UNCHANGED downloads
       ELSE /\ downloadFile(JSONstringify(geoJsonContent),
                            <<"gps-route-", datePart(toISOString(now)),
                              ".geojson">>,
                            "application/geo+json")
            /\ exporterToast' = Some("GeoJSON Exported")
    /\ lastOp' = "exportToGeoJSON"
    /\ UNCHANGED <<engineState, now, wasTracking, args, result, requests,
                   searchBar>>

\* The tracker renders the exporter again with another route.
RouteExporter ==
    /\ route' \in ExportTracks
    /\ route' # route
    /\ lastOp' = "render"
    /\ UNCHANGED <<currentPosition, isTracking, isPaused, plannedRoute,
                   destination, totalDistance, currentSpeed, averageSpeed,
                   routeInfo, savedRoutes, watchId, lastPositionRef,
                   startTimeRef, localStorage, watches, now, wasTracking,
                   outside>>

InitExport == Init

NextExport ==
    \/ RouteExporter
    \/ exportToGPX
    \/ exportToGeoJSON

SpecExport == InitExport /\ [][NextExport]_vars

\* C22: an export, GPX or GeoJSON, of a track without samples produces no
\* file and reports that there is no route data; an export of a track
\* with at least one sample produces exactly one file, with the extension
\* and the MIME type of the requested format.
C22_ExportOneFileOrNoData ==
    [][lastOp' \in {"exportToGPX", "exportToGeoJSON"}
       => IF Len(route) = 0
          THEN /\ downloads' = downloads
               /\ exporterToast' = Some("No Route Data")
          ELSE /\ Len(downloads') = Len(downloads) + 1
               /\ SubSeq(downloads', 1, Len(downloads)) = downloads
               /\ exporterToast' # Some("No Route Data")
               /\ LET file == Last(downloads')
                  IN  IF lastOp' = "exportToGPX"
                      THEN /\ file.filename[3] = ".gpx"
                           /\ file.mimeType = "application/gpx+xml"
                           /\ Len(file.content.trk.trkseg) = Len(route)
                      ELSE /\ file.filename[3] = ".geojson"
                           /\ file.mimeType = "application/geo+json"
                           /\ JSONparse(file.content).type
                                  = "FeatureCollection"]_vars

C22_Witness ==
    /\ lastOp = "exportToGeoJSON"
    /\ Len(route) = 0
    /\ Len(downloads) = 1
    /\ downloads[1].mimeType = "application/gpx+xml"
    /\ exporterToast = Some("No Route Data")

\* C23: the GeoJSON export of a track of N samples has N coordinates in
\* track order, the i-th being [longitude_i, latitude_i], so that swapping
\* each pair back gives the track's (lat, lng) sequence; its timestamps
\* array has N entries in the same order.
C23_GeoJsonCoordinatesRoundTrip ==
    [][(lastOp' = "exportToGeoJSON" /\ Len(route) > 0)
       => LET feature == JSONparse(Last(downloads').content).features[1]
              coordinates == feature.geometry.coordinates
              timestamps == feature.properties.timestamps
          IN  /\ Len(coordinates) = Len(route)
              /\ \A i \in 1..Len(route) :
                     /\ coordinates[i] = <<route[i].lng, route[i].lat>>
                     /\ <<coordinates[i][2], coordinates[i][1]>>
                            = <<route[i].lat, route[i].lng>>
              /\ Len(timestamps) = Len(route)
              /\ \A i \in 1..Len(route) :
                     timestamps[i] = toISOString(route[i].timestamp)]_vars

C23_Witness ==
    /\ lastOp = "exportToGeoJSON"
    /\ Len(route) = 2
    /\ route[1].lat # route[2].lat
    /\ route[1].timestamp # route[2].timestamp
    /\ downloads # <<>>
    /\ Last(downloads).mimeType = "application/geo+json"

\* ------------------------------------------------- gpsUtils, called alone
\* The positions the functions are called with lie on the equator like
\* those of the tracker; accuracy is an optional field, <<>> when absent.
\* Every timestamp is present.
FilterPoints ==
    {[lat |-> 0, lng |-> x, timestamp |-> 0, accuracy |-> a] :
        x \in {0, 3, 6}, a \in {Null, Some(0), Some(10), Some(100)}}

SpeedPoints ==
    {[lat |-> 0, lng |-> x, timestamp |-> t] :
        x \in {0, 8}, t \in {0, 1, 2}}

\* The coordinates handed to smoothCoordinates are multiples of 6, so
\* that the means over windows of one, two and three points are whole.
SmoothPoints ==
    {[lat |-> y, lng |-> x, timestamp |-> t] :
        y \in {0, 6}, x \in {0, 12}, t \in {0, 1}}

WindowSizes == {2, 3}

\* Bearings in quarters of a degree, 0 to 360 degrees.
QuarterDegrees == 0..1440

SeqsUpTo(S, n) == UNION {[1..k -> S] : k \in 0..n}

\* A JavaScript number used as a condition: 0 is false.
Truthy(number) == number # 0

Min(a, b) == IF a <= b THEN a ELSE b

keeps_IgnoresAccuracy(last, current, minDistance, maxAccuracy) ==
    ~(calculateDistance(last, current) < minDistance)

\* The two tests of the loop body of filterGPSPoints: no `continue`.
keeps(last, current, minDistance, maxAccuracy) ==
    /\ ~(calculateDistance(last, current) < minDistance)
    /\ ~(/\ current.accuracy # Null
         /\ Truthy(Get(current.accuracy))
         /\ Get(current.accuracy) > maxAccuracy)

\* The loop of filterGPSPoints from index i on, with the points kept so far.
RECURSIVE filterLoop(_, _, _, _, _)
filterLoop(positions, i, filtered, minDistance, maxAccuracy) ==
    IF i > Len(positions) THEN filtered
    ELSE filterLoop(positions, i + 1,
                    IF keeps(filtered[Len(filtered)], positions[i],
                             minDistance, maxAccuracy)
                    THEN Append(filtered, positions[i])
                    ELSE filtered,
                    minDistance, maxAccuracy)

filterGPSPoints(positions, minDistance, maxAccuracy) ==
    IF Len(positions) = 0 THEN positions
    ELSE filterLoop(positions, 2, <<positions[1]>>, minDistance, maxAccuracy)

RECURSIVE Sum(_, _, _)
Sum(f, from, to) == IF from > to THEN 0 ELSE f[from] + Sum(f, from + 1, to)

\* Math.floor(windowSize / 2) and Math.ceil(windowSize / 2).
floorHalf(windowSize) == windowSize \div 2

ceilHalf(windowSize) == (windowSize + 1) \div 2

\* The point smoothCoordinates pushes for the i-th position (i from 1;
\* the loop's own index is i - 1 and its window is start..end-1).
smoothed(positions, windowSize, i) ==
    LET start == Max(0, (i - 1) - floorHalf(windowSize))
        end == Min(Len(positions), (i - 1) + ceilHalf(windowSize))
        count == end - start
    IN  [lat |-> Sum([j \in 1..Len(positions) |-> positions[j].lat],
                     start + 1, end) \div count,
         lng |-> Sum([j \in 1..Len(positions) |-> positions[j].lng],
                     start + 1, end) \div count,
         timestamp |-> positions[i].timestamp]

smoothCoordinates_DropsLast(positions, windowSize) ==
    IF Len(positions) <= windowSize THEN positions
    ELSE [i \in 1..(Len(positions) - 1) |->
             smoothed(positions, windowSize, i)]

smoothCoordinates(positions, windowSize) ==
    IF Len(positions) <= windowSize THEN positions
    ELSE [i \in 1..Len(positions) |-> smoothed(positions, windowSize, i)]

directions ==
    <<"N", "NNE", "NE", "ENE", "E", "ESE", "SE", "SSE",
      "S", "SSW", "SW", "WSW", "W", "WNW", "NW", "NNW">>

\* Math.round(degrees / 22.5) for a bearing in quarters of a degree:
\* 22.5 degrees are 90 quarters, and Math.round rounds halves up.
roundSector(quarters) == (quarters + 45) \div 90

degreesToCardinal_NoWrap(quarters) ==
    LET index == roundSector(quarters)
    IN  IF index + 1 \in DOMAIN directions
        THEN directions[index + 1] ELSE "undefined"

degreesToCardinal(quarters) ==
    LET index == roundSector(quarters) % 16
    IN  IF index + 1 \in DOMAIN directions
        THEN directions[index + 1] ELSE "undefined"

\* km/h as the quotient <<metres * 3600, milliseconds>>.
calculateSpeed(pos1, pos2) ==
    IF ~Truthy(pos1.timestamp) \/ ~Truthy(pos2.timestamp) THEN Zero
    ELSE LET distance == calculateDistance(pos1, pos2)
             timeDiff == pos2.timestamp - pos1.timestamp
         IN  IF timeDiff = 0 THEN Zero ELSE <<distance * 3600, timeDiff>>

\* The calls: the name of the function and its arguments.
Calls ==
    {<<"filterGPSPoints", positions, minDistance, maxAccuracy>> :
        positions \in SeqsUpTo(FilterPoints, MaxLen),
        minDistance \in {MinDistance, 3},
        maxAccuracy \in {MaxAccuracy, 10}}
    \cup {<<"smoothCoordinates", positions, windowSize>> :
            positions \in SeqsUpTo(SmoothPoints, MaxLen),
            windowSize \in WindowSizes}
    \cup {<<"degreesToCardinal", quarters>> : quarters \in QuarterDegrees}
    \cup {<<"calculateDistance", pos1, pos2>> :
            pos1 \in SpeedPoints, pos2 \in SpeedPoints}
    \cup {<<"calculateSpeed", pos1, pos2>> :
            pos1 \in SpeedPoints, pos2 \in SpeedPoints}

InitUtils ==
    /\ initialRender
    /\ downloads = <<>>
    /\ exporterToast = Null
    /\ args \in {Some(call) : call \in Calls}
    /\ result = Null
    /\ requests = {}
    /\ initialSearchBar

\* A call returns once; its arguments are left as they were passed.
returns(fn) ==
    /\ result = Null
    /\ lastOp' = fn
    /\ UNCHANGED <<engineState, now, wasTracking, downloads, exporterToast,
                   args, requests, searchBar>>

FilterCall ==
    /\ Get(args)[1] = "filterGPSPoints"
    /\ result' = Some(filterGPSPoints(Get(args)[2], Get(args)[3],
                                      Get(args)[4]))
    /\ returns("filterGPSPoints")

SmoothCall ==
    /\ Get(args)[1] = "smoothCoordinates"
    /\ result' = Some(smoothCoordinates(Get(args)[2], Get(args)[3]))
    /\ returns("smoothCoordinates")

CardinalCall ==
    /\ Get(args)[1] = "degreesToCardinal"
    /\ result' = Some(degreesToCardinal(Get(args)[2]))
    /\ returns("degreesToCardinal")

DistanceCall ==
    /\ Get(args)[1] = "calculateDistance"
    /\ result' = Some(calculateDistance(Get(args)[2], Get(args)[3]))
    /\ returns("calculateDistance")

SpeedCall ==
    /\ Get(args)[1] = "calculateSpeed"
    /\ result' = Some(calculateSpeed(Get(args)[2], Get(args)[3]))
    /\ returns("calculateSpeed")

NextUtils ==
    \/ FilterCall
    \/ SmoothCall
    \/ CardinalCall
    \/ DistanceCall
    \/ SpeedCall

SpecUtils == InitUtils /\ [][NextUtils]_vars

\* The subsequence obtained by folding admission over the samples: the
\* first is kept, a later one is kept iff it is at least minDistance from
\* the last kept one and its accuracy is absent or at most maxAccuracy.
RECURSIVE FoldAdmit(_, _, _)
FoldAdmit(samples, minDistance, maxAccuracy) ==
    IF Len(samples) <= 1 THEN samples
    ELSE LET front == FoldAdmit(SubSeq(samples, 1, Len(samples) - 1),
                                minDistance, maxAccuracy)
             candidate == Last(samples)
         IN  IF /\ Abs(candidate.lng - Last(front).lng) >= minDistance
                /\ \/ candidate.accuracy = Null
                   \/ Get(candidate.accuracy) <= maxAccuracy
             THEN Append(front, candidate)
             ELSE front

\* C24: filterGPSPoints(samples, minDistance, maxAccuracy) returns the
\* subsequence obtained by folding admission over the input.
C24_FilterIsFoldOfAdmit ==
    lastOp = "filterGPSPoints"
    => Get(result) = FoldAdmit(Get(args)[2], Get(args)[3], Get(args)[4])

C24_Witness ==
    /\ lastOp = "filterGPSPoints"
    /\ Len(Get(args)[2]) = 3
    /\ Len(Get(result)) = 2
    /\ Get(result)[2] = Get(args)[2][3]
    /\ Get(args)[2][2].accuracy = Some(100)
    /\ Get(args)[2][3].accuracy = Null

\* The arithmetic mean of a coordinate over the centred window of the
\* i-th of the samples (i from 1): the indices from i - floor(w/2) up to,
\* not including, i + ceil(w/2), clipped to the sequence; as the quotient
\* <<sum, count>>.
WindowMean(coordinates, windowSize, i) ==
    LET window == {j \in 1..Len(coordinates) :
                      /\ j >= i - (windowSize \div 2)
                      /\ j < i + ((windowSize + 1) \div 2)}
    IN  <<Sum([j \in 1..Len(coordinates) |->
                  IF j \in window THEN coordinates[j] ELSE 0],
              1, Len(coordinates)),
          Cardinality(window)>>

\* C25: for every input sequence, those no longer than windowSize
\* included, smoothCoordinates replaces each point by the arithmetic mean
\* of latitude and of longitude over its centred window, clipped to the
\* sequence bounds.
C25_SmoothedIsWindowMean ==
    lastOp = "smoothCoordinates"
    => LET positions == Get(args)[2]
           windowSize == Get(args)[3]
           lats == [j \in 1..Len(positions) |-> positions[j].lat]
           lngs == [j \in 1..Len(positions) |-> positions[j].lng]
       IN  /\ Len(Get(result)) = Len(positions)
           /\ \A i \in 1..Len(positions) :
                  /\ RatEq(<<Get(result)[i].lat, 1>>,
                           WindowMean(lats, windowSize, i))
                  /\ RatEq(<<Get(result)[i].lng, 1>>,
                           WindowMean(lngs, windowSize, i))

\* C26: smoothCoordinates leaves the sequence it was passed as it was, and
\* returns a sequence of the same length whose i-th timestamp is the
\* input's i-th timestamp.
C26_SmoothKeepsInputAndTimestamps ==
    [][lastOp' = "smoothCoordinates"
       => /\ args' = args
          /\ Len(Get(result')) = Len(Get(args)[2])
          /\ \A i \in 1..Len(Get(args)[2]) :
                 Get(result')[i].timestamp = Get(args)[2][i].timestamp]_vars

C26_Witness ==
    /\ lastOp = "smoothCoordinates"
    /\ Len(Get(args)[2]) = 3
    /\ Get(args)[3] = 2
    /\ Get(result) # Get(args)[2]
    /\ Get(args)[2][1].timestamp # Get(args)[2][3].timestamp

\* The angle between two bearings on the circle, in quarters of a degree.
Apart(a, b) == Min(Abs(a - b), 1440 - Abs(a - b))

\* C27: for every bearing from 0 to 360 degrees degreesToCardinal returns
\* one of the 16 compass labels, that of a 22.5-degree sector whose centre
\* is nearest to the bearing; bearings from 348.75 to 360 give N; the
\* result is never an undefined label.
C27_CardinalIsNearestSector ==
    lastOp = "degreesToCardinal"
    => LET quarters == Get(args)[2]
           label == Get(result)
       IN  /\ \E k \in 0..15 :
                  /\ label = directions[k + 1]
                  /\ \A m \in 0..15 :
                         Apart(quarters, 90 * k) <= Apart(quarters, 90 * m)
           /\ quarters >= 1395 => label = "N"

C27_Witness ==
    /\ lastOp = "degreesToCardinal"
    /\ Get(args)[2] = 1395
    /\ Get(result) = "N"

C29_SpeedIsDistanceOverHours ==
    lastOp = "calculateSpeed"
    => RatEq(Get(result), SpeedBetween(Get(args)[2], Get(args)[3]))

\* ------------------------------------------- persisted area at startup
\* A track an earlier run of the component stored.
earlierTrack ==
    [id |-> ToString(0),
     name |-> 0,
     positions |-> <<[lat |-> 0, lng |-> 0, timestamp |-> 0,
                      accuracy |-> 10],
                     [lat |-> 0, lng |-> 8, timestamp |-> 0,
                      accuracy |-> 10]>>,
     startTime |-> 0,
     endTime |-> 0,
     totalDistance |-> 8,
     averageSpeed |-> Zero]

\* A stored text that JSON.parse rejects: the text of a collection that
\* was damaged in the persisted area (cut short, overwritten in part).
damaged(item) == [garbled |-> item.text]

SyntaxError(item) == "garbled" \in DOMAIN item

\* What the component can find under 'gps-routes' when it is mounted.
StoredItems ==
    {Some(JSONstringify(<<earlierTrack>>)),
     Some(damaged(JSONstringify(<<earlierTrack>>)))}

\* The effect that loads the saved routes: setSavedRoutes(JSON.parse(saved))
\* inside try/catch, savedRoutes staying [] when parsing throws.
loadSavedRoutes(saved) ==
    IF saved = Null THEN <<>>
    ELSE IF SyntaxError(Get(saved)) THEN <<>>
    ELSE JSONparse(Get(saved))

InitStartup ==
    /\ localStorage \in StoredItems
    /\ savedRoutes = loadSavedRoutes(localStorage)
    /\ currentPosition = Null
    /\ isTracking = FALSE
    /\ isPaused = FALSE
    /\ route = <<>>
    /\ plannedRoute = <<>>
    /\ destination = Null
    /\ totalDistance = 0
    /\ currentSpeed = 0
    /\ averageSpeed = Zero
    /\ routeInfo = Null
    /\ watchId = Null
    /\ lastPositionRef = Null
    /\ startTimeRef = 0
    /\ watches = {}
    /\ now = 0
    /\ lastOp = "init"
    /\ wasTracking = FALSE
    /\ downloads = <<>>
    /\ exporterToast = Null
    /\ args = Null
    /\ result = Null
    /\ requests = {}
    /\ initialSearchBar

SpecStartup == InitStartup /\ [][Next]_vars

\* The tracks the persisted item holds, readable or not.
Held ==
    IF localStorage = Null THEN <<>>
    ELSE IF SyntaxError(Get(localStorage)) THEN Get(localStorage).garbled
    ELSE JSONparse(Get(localStorage))

\* C30: when the persisted collection could not be parsed at startup, a
\* later stop() that succeeds does not replace it by a collection that
\* lacks tracks it held: every track held before the stop() is held after.
C30_StopKeepsHeldTracks ==
    [][lastOp' = "stop"
       => /\ Len(Held') >= Len(Held)
          /\ SubSeq(Held', 1, Len(Held)) = Held]_vars

\* C31: every track committed by stop() holds only samples received in
\* the session that the stop() ended: its startTime, the time of the
\* session's start(), is at most the timestamp of each of its samples,
\* which is at most its endTime.
C31_CommittedSamplesWithinSession ==
    \A i \in 1..Len(Persisted) :
        \A j \in 1..Len(Persisted[i].positions) :
            /\ Persisted[i].startTime <= Persisted[i].positions[j].timestamp
            /\ Persisted[i].positions[j].timestamp <= Persisted[i].endTime

\* ------------------------------------------------------ GPSControlPanel
\* The handlers as the control panel offers them: Start is rendered while
\* not tracking, Stop while tracking, and the Pause/Resume button is
\* disabled while not tracking; Clear and the history list are always
\* there.
StartButton == ~isTracking /\ startTracking

StopButton == isTracking /\ stopTracking

PauseButton_AlwaysEnabled == togglePause

PauseButton == isTracking /\ togglePause

NextPanel ==
    \/ StartButton
    \/ StopButton
    \/ PauseButton
    \/ clearRoute
    \/ Load
    \/ Deliver
    \/ Tick

SpecPanel == InitStartup /\ [][NextPanel]_vars

\* C32: in every state reached through the control panel the paused flag
\* is set only while tracking is on.
C32_PausedOnlyWhileTracking == isPaused => isTracking

C32_Witness ==
    /\ lastOp = "pause"
    /\ isPaused
    /\ isTracking

\* -------------------------------------------------------------- routing
MaxRequests == 2

\* The places a destination can be chosen from, east of every fix.
Places == {[lat |-> 0, lng |-> 20], [lat |-> 0, lng |-> 30]}

\* What router.project-osrm.org answers for a drive between two points:
\* one route whose geometry leads from the origin to the destination, its
\* distance in metres and its duration in seconds (a metre a minute).
OSRM(origin, target) ==
    [routes |-> <<[geometry |->
                     [coordinates |-> << <<origin.lng, origin.lat>>,
                                         <<target.lng, target.lat>> >>],
                   distance |-> calculateDistance(origin, target),
                   duration |-> 60 * calculateDistance(origin, target)]>>]

\* The answer of the router when it finds no route.
NoRoute == [routes |-> <<>>]

\* fetch(): the request is under way; it carries the current position and
\* the destination that were put into its URL.
fetch(selected) ==
    LET id == CHOOSE n \in 1..(Cardinality(requests) + 1) :
                  \A r \in requests : r.id # n
    IN  [id |-> id, origin |-> currentPosition, destination |-> selected]

noCurrentLocation_Never == FALSE

noCurrentLocation == currentPosition = Null

\* handleDestinationSelect up to its await: the guard on currentPosition,
\* setDestination and the request to the router.
onDestinationSelect(selected) ==
    /\ Cardinality(requests) < MaxRequests
    /\ IF noCurrentLocation
       THEN UNCHANGED <<destination, requests>>
       ELSE /\ destination' = Some(selected)
            /\ requests' = requests \cup {fetch(selected)}

\* The handler called on its own, the search box left aside.
handleDestinationSelect(selected) ==
    /\ onDestinationSelect(selected)
    /\ lastOp' = "select"
    /\ wasTracking' = isTracking
    /\ UNCHANGED <<downloads, exporterToast, args, result, searchBar>>
    /\ UNCHANGED <<currentPosition, isTracking, isPaused, route,
                   plannedRoute, totalDistance, currentSpeed, averageSpeed,
                   routeInfo, savedRoutes, watchId, lastPositionRef,
                   startTimeRef, localStorage, watches, now>>

\* handleDestinationSelect after its await, the router having answered
\* the request with data: the planned route and the route info are set
\* when data holds a route.  routeInfo keeps the distance in metres
\* (km * 1000) and the duration in minutes.
routeCalculated(request, data) ==
    /\ requests' = requests \ {request}
    /\ IF data.routes # <<>>
       THEN LET coordinates == data.routes[1].geometry.coordinates
            IN  /\ plannedRoute' =
                       [i \in 1..Len(coordinates) |->
                           [lat |-> coordinates[i][2],
                            lng |-> coordinates[i][1],
                            timestamp |-> now]]
                /\ routeInfo' =
                       Some([distance |-> data.routes[1].distance,
                             duration |-> data.routes[1].duration \div 60])
       ELSE UNCHANGED <<plannedRoute, routeInfo>>
    /\ lastOp' = "route"
    /\ wasTracking' = isTracking
    /\ UNCHANGED <<downloads, exporterToast, args, result, searchBar>>
    /\ UNCHANGED <<currentPosition, isTracking, isPaused, route, destination,
                   totalDistance, currentSpeed, averageSpeed, savedRoutes,
                   watchId, lastPositionRef, startTimeRef, localStorage,
                   watches, now>>

\* The catch branch: the request failed, a toast says so.
routeError(request) ==
    /\ requests' = requests \ {request}
    /\ lastOp' = "route error"
    /\ wasTracking' = isTracking
    /\ UNCHANGED <<downloads, exporterToast, args, result, searchBar>>
    /\ UNCHANGED <<currentPosition, isTracking, isPaused, route,
                   plannedRoute, destination, totalDistance, currentSpeed,
                   averageSpeed, routeInfo, savedRoutes, watchId,
                   lastPositionRef, startTimeRef, localStorage, watches,
                   now>>

\* A place is picked in the search box.
Select ==
    \E place \in Places :
        handleDestinationSelect([lat |-> place.lat, lng |-> place.lng,
                                 timestamp |-> now])

\* The router answers the requests in any order.
Route ==
    \E request \in requests :
        routeCalculated(request,
                        OSRM(Get(request.origin), request.destination))

RouteNotFound == \E request \in requests : routeCalculated(request, NoRoute)

RouteFails == \E request \in requests : routeError(request)

NextRouting ==
    \/ StartButton
    \/ clearRoute
    \/ Load
    \/ Deliver
    \/ Select
    \/ Route
    \/ RouteNotFound
    \/ RouteFails

SpecRouting == InitStartup /\ [][NextRouting]_vars

\* C33: clearing the route empties the current track, the planned route
\* and the destination and zeroes the three metrics; the tracking and
\* paused flags, the location subscription, the saved list in memory and
\* the persisted collection are left as they were.
C33_ClearEmptiesAndKeepsTheRest ==
    [][lastOp' = "clear"
       => /\ route' = <<>>
          /\ plannedRoute' = <<>>
          /\ destination' = Null
          /\ totalDistance' = 0
          /\ currentSpeed' = 0
          /\ RatEq(averageSpeed', Zero)
          /\ UNCHANGED <<isTracking, isPaused, watchId, watches,
                         savedRoutes, localStorage>>]_vars

\* A clear while tracking is on, with a track stored and a routing request
\* still under way.
C33_Witness ==
    /\ lastOp = "clear"
    /\ isTracking
    /\ watches # {}
    /\ Len(savedRoutes) > 0
    /\ requests # {}
    /\ plannedRoute = <<>>
    /\ destination = Null

\* C34: selecting a destination while no current position is known leaves
\* the destination, the planned route and the route info as they were and
\* sends no routing request.
C34_NoPositionNoRouting ==
    [][(lastOp' = "select" /\ currentPosition = Null)
       => UNCHANGED <<destination, plannedRoute, routeInfo, requests>>]_vars

C34_Witness ==
    /\ lastOp = "select"
    /\ currentPosition = Null
    /\ destination = Null
    /\ requests = {}

\* The planned route leads to the place.
LeadsTo(planned, place) ==
    /\ Last(planned).lat = place.lat
    /\ Last(planned).lng = place.lng

\* C35: whenever a planned route is held it was computed for the
\* destination that is selected now, in whatever order the responses of
\* the requests under way arrive and whether or not the route was cleared
\* meanwhile.
C35_PlannedRouteIsForDestination ==
    plannedRoute # <<>>
    => /\ destination # Null
       /\ LeadsTo(plannedRoute, Get(destination))

\* ------------------------------------------------------------ SearchBar
MaxKeystrokes == 3

\* setTimeout(..., 500)
Debounce == 500

\* What is typed into the input: one value too short to be searched for
\* and two that are long enough.
Inputs == {"na", "nai", "nair"}

Nairobi ==
    [place_id |-> "1", display_name |-> <<"Nairobi", "Kenya">>,
     lat |-> "0", lon |-> "20"]

Naivasha ==
    [place_id |-> "2", display_name |-> <<"Naivasha", "Kenya">>,
     lat |-> "0", lon |-> "30"]

\* What nominatim.openstreetmap.org answers with status 200; display_name
\* is kept as the parts that its commas separate.
Nominatim(searchQuery) ==
    IF searchQuery = "nai" THEN <<Nairobi, Naivasha>>
    ELSE IF searchQuery = "nair" THEN <<Nairobi>>
    ELSE <<>>

parseFloat(text) ==
    CASE text = "0" -> 0
      [] text = "20" -> 20
      [] text = "30" -> 30

\* The component is rendered until its cleanup has run.
rendered == lastOp # "cleanup"

\* What the SearchBar's handlers do not touch.
tracker ==
    <<currentPosition, isTracking, isPaused, route, plannedRoute,
      destination, totalDistance, currentSpeed, averageSpeed, routeInfo,
      savedRoutes, watchId, lastPositionRef, startTimeRef, localStorage,
      watches, now, downloads, exporterToast, args, result, requests>>

clearTimeout_Nothing(ref, pending) == pending

\* if (debounceRef.current) clearTimeout(debounceRef.current): clearing a
\* timeout that has fired already does nothing.
clearTimeout(ref, pending) ==
    IF ref = Null THEN pending
    ELSE {timer \in pending : timer.id # Get(ref)}

\* setTimeout hands out its ids in order; only handleInputChange asks for
\* one, so the id is the number of the keystroke.
handleInputChange(value) ==
    /\ rendered
    /\ Len(typed) < MaxKeystrokes
    /\ query' = value
    /\ LET id == Len(typed) + 1
       IN  /\ timers' = clearTimeout(debounceRef, timers)
                            \cup {[id |-> id, value |-> value,
                                   remaining |-> Debounce]}
           /\ debounceRef' = Some(id)
    /\ typed' = Append(typed, value)
    /\ sinceKeystroke' = 0
    /\ lastOp' = "input"
    /\ wasTracking' = isTracking
    /\ UNCHANGED <<results, isLoading, showResults, searches, launched>>
    /\ UNCHANGED tracker

\* Half the delay passes.  A timeout whose delay has run out fires before
\* more time passes; a keystroke can still come first.  The clock of the
\* tracker, which counts on another scale, is left alone.
Wait ==
    /\ rendered
    /\ \A timer \in timers : timer.remaining > 0
    /\ timers # {} \/ sinceKeystroke < Debounce
    /\ timers' = {[timer EXCEPT !.remaining = @ - Debounce \div 2] :
                    timer \in timers}
    /\ sinceKeystroke' = Min(sinceKeystroke + Debounce \div 2, Debounce)
    /\ lastOp' = "wait"
    /\ wasTracking' = isTracking
    /\ UNCHANGED <<query, results, isLoading, showResults, debounceRef,
                   searches, launched, typed>>
    /\ UNCHANGED tracker

\* searchPlaces up to its await: an input of fewer than 3 characters
\* empties the results, a longer one turns the indicator on and sends the
\* request.
searchPlaces(searchQuery) ==
    IF Len(searchQuery) < 3
    THEN /\ results' = <<>>
         /\ UNCHANGED <<isLoading, searches, launched>>
    ELSE /\ isLoading' = TRUE
         /\ searches' = searches \cup {[id |-> Len(launched) + 1,
                                        searchQuery |-> searchQuery]}
         /\ launched' = Append(launched, searchQuery)
         /\ UNCHANGED results

\* The callback given to setTimeout runs.
timeout(timer) ==
    /\ rendered
    /\ timer.remaining = 0
    /\ timers' = timers \ {timer}
    /\ searchPlaces(timer.value)
    /\ lastOp' = "timeout"
    /\ wasTracking' = isTracking
    /\ UNCHANGED <<query, showResults, debounceRef, typed, sinceKeystroke>>
    /\ UNCHANGED tracker

\* searchPlaces after its await, response.ok: the data are shown and the
\* finally branch turns the indicator off.
searchSucceeds(search) ==
    /\ rendered
    /\ searches' = searches \ {search}
    /\ results' = Nominatim(search.searchQuery)
    /\ showResults' = TRUE
    /\ isLoading' = FALSE
    /\ lastOp' = "results"
    /\ wasTracking' = isTracking
    /\ UNCHANGED <<query, debounceRef, timers, launched, typed,
                   sinceKeystroke>>
    /\ UNCHANGED tracker

\* The catch branch, then finally.
searchFails(search) ==
    /\ rendered
    /\ searches' = searches \ {search}
    /\ results' = <<>>
    /\ isLoading' = FALSE
    /\ lastOp' = "search error"
    /\ wasTracking' = isTracking
    /\ UNCHANGED <<query, showResults, debounceRef, timers, launched, typed,
                   sinceKeystroke>>
    /\ UNCHANGED tracker

\* A click on an entry of the list that is shown.
handleResultSelect(found) ==
    /\ rendered
    /\ showResults
    /\ onDestinationSelect([lat |-> parseFloat(found.lat),
                            lng |-> parseFloat(found.lon),
                            timestamp |-> now])
    /\ query' = found.display_name[1]
    /\ showResults' = FALSE
    /\ lastOp' = "pick"
    /\ wasTracking' = isTracking
    /\ UNCHANGED <<results, isLoading, debounceRef, timers, searches,
                   launched, typed, sinceKeystroke>>
    /\ UNCHANGED <<currentPosition, isTracking, isPaused, route,
                   plannedRoute, totalDistance, currentSpeed, averageSpeed,
                   routeInfo, savedRoutes, watchId, lastPositionRef,
                   startTimeRef, localStorage, watches, now, downloads,
                   exporterToast, args, result>>

\* A mouse press outside the input and outside the list that is shown.
handleClickOutside ==
    /\ rendered
    /\ showResults
    /\ results # <<>> \/ (~isLoading /\ Len(query) >= 3)
    /\ showResults' = FALSE
    /\ lastOp' = "click outside"
    /\ wasTracking' = isTracking
    /\ UNCHANGED <<query, results, isLoading, debounceRef, timers, searches,
                   launched, typed, sinceKeystroke>>
    /\ UNCHANGED tracker

onFocus ==
    /\ rendered
    /\ ~showResults
    /\ results # <<>>
    /\ showResults' = TRUE
    /\ lastOp' = "focus"
    /\ wasTracking' = isTracking
    /\ UNCHANGED <<query, results, isLoading, debounceRef, timers, searches,
                   launched, typed, sinceKeystroke>>
    /\ UNCHANGED tracker

\* The effect's cleanup when the component is unmounted; what arrives
\* afterwards sets the state of a component that is gone.
cleanup ==
    /\ rendered
    /\ timers' = clearTimeout(debounceRef, timers)
    /\ lastOp' = "cleanup"
    /\ wasTracking' = isTracking
    /\ UNCHANGED <<query, results, isLoading, showResults, debounceRef,
                   searches, launched, typed, sinceKeystroke>>
    /\ UNCHANGED tracker

Type == \E value \in Inputs : handleInputChange(value)

Timeout == \E timer \in timers : timeout(timer)

Found == \E search \in searches : searchSucceeds(search)

NotFound == \E search \in searches : searchFails(search)

Pick == \E i \in 1..Len(results) : handleResultSelect(results[i])

NextSearch ==
    \/ Type
    \/ Wait
    \/ Timeout
    \/ Found
    \/ NotFound
    \/ Pick
    \/ handleClickOutside
    \/ onFocus
    \/ cleanup

SpecSearch == Init /\ [][NextSearch]_vars

C37_LatestSearchShown ==
    /\ isLoading <=> searches # {}
    /\ (searches = {} /\ launched # <<>>)
       => results \in {Nominatim(Last(launched)), <<>>}
====
